---- MODULE Spec2Model ----
(***************************************************************************)
(* Frame-sequence engine of the spiking-network visualisers:               *)
(*   visualize_network.py  (NetworkVisualizer, 2D, activity detector),     *)
(*   animate_3d_spiking.py (Spike3DAnimator),                              *)
(*   animate_training.py   (TrainingAnimator).                             *)
(* Potentials are counted in units of 0.01 and weights in units of 0.1.    *)
(***************************************************************************)
EXTENDS Integers, Sequences, FiniteSets, TLC

VARIABLES
    animator,             \* which program runs: "network", "spike3d", "training"
    listing,              \* os.listdir / glob of the searched directory: <<[name, data]>>
    base_filename,        \* the reference file path given on the command line
    step_files,           \* the sorted (key, filepath) list built by the last load
    time_steps,           \* self.time_steps
    frame_info,           \* TrainingAnimator.frame_info
    current_data,         \* NetworkVisualizer.current_data
    previous_data,        \* NetworkVisualizer.previous_data
    G,                    \* self.G
    connection_activity,  \* NetworkVisualizer.connection_activity
    playing,              \* a FuncAnimation timer is armed (plt.show() is open)
    loop,                 \* the loop argument of the running animation
    frame,                \* the next value FuncAnimation hands to update_frame
    step_idx,             \* the index computed by the last update_frame
    drawn,                \* what the last draw call produced
    ticks,                \* update_frame calls made since construction
    raised,               \* the exception the last operation raised to its caller, or None
    pos_3d,               \* self.pos_3d
    layout_type,          \* the layout_type of the last _calculate_3d_layout call
    printed               \* what the last show_connection_statistics call printed

vars == <<animator, listing, base_filename, step_files, time_steps,
          frame_info, current_data, previous_data, G, connection_activity,
          playing, loop, frame, step_idx, drawn, ticks, raised, pos_3d,
          layout_type, printed>>

(***************************************************************************)
(* Bounds of the model.                                                    *)
(***************************************************************************)
MaxFrames == 2
MaxTicks == 3
MaxFiles == 3

(***************************************************************************)
(* Python values.                                                          *)
(***************************************************************************)
None == [none |-> TRUE]

\* the message names the fixed suffix only, not the path that was tried
NoStepFiles_Unnamed(pattern) ==
    [exc |-> "ValueError", msg |-> "No time step files found matching pattern",
     pattern |-> [pattern EXCEPT !.base_path = [dir |-> "", prefix |-> ""]]]

\* raise ValueError(f"No time step files found matching pattern: {pattern}")
NoStepFiles(pattern) ==
    [exc |-> "ValueError", msg |-> "No time step files found matching pattern",
     pattern |-> pattern]

\* raise ValueError("No training frame files found")
NoTrainingFiles == [exc |-> "ValueError", msg |-> "No training frame files found"]

\* raise ValueError("No time steps loaded. Use load_time_series() first.")
NoTimeSeries == [exc |-> "ValueError", msg |-> "No time steps loaded"]

\* raise ValueError(f"Unknown layout type: {layout_type}")
UnknownLayoutType(lt) ==
    [exc |-> "ValueError", msg |-> "Unknown layout type", layout_type |-> lt]

\* a dictionary read of a key that is not there
KeyError == [exc |-> "KeyError"]

\* json.load(f) on a file that is not JSON
JSONDecodeError(filepath) == [exc |-> "JSONDecodeError", file |-> filepath]

Min(a, b) == IF a <= b THEN a ELSE b

Range(s) == {s[i] : i \in DOMAIN s}

\* Sequences over S of length lo..hi.
SeqsOf(S, lo, hi) == UNION {[1..n -> S] : n \in lo..hi}

\* Sequences without repetition.
Injective(s) == \A i, j \in DOMAIN s : i # j => s[i] # s[j]

(***************************************************************************)
(* File names.  A step file is <dir>/<prefix>_step<num>.json, a plain file *)
(* <dir>/<prefix>.json (num = <<>>), a training file                       *)
(* <dir>/training_epoch<E>_test_digit<D>_step<S>.json.  Digit strings are  *)
(* sequences of decimal digits.                                            *)
(***************************************************************************)
RECURSIVE IntOf(_)
\* int(match.group(k)): the decimal value of a digit string.
IntOf(ds) ==
    IF ds = <<>> THEN 0
    ELSE 10 * IntOf(SubSeq(ds, 1, Len(ds) - 1)) + ds[Len(ds)]

StepName(dir, prefix, num) ==
    [kind |-> "step", dir |-> dir, prefix |-> prefix, num |-> num]

TrainingName(dir, epoch, digit, step) ==
    [kind |-> "training", dir |-> dir, epoch |-> epoch, digit |-> digit, step |-> step]

\* os.path.dirname(base_filename) if os.path.dirname(base_filename) else '.'
DirPath(base) == IF base.dir = "" THEN "." ELSE base.dir

\* os.path.join(dir_path, filename)
PathJoin(dir_path, name) == [name EXCEPT !.dir = dir_path]

\* re.search(r'(.+)_step\d+\.json$', base_filename) and the fallback
\* base_filename.replace('.json', ''): the path up to "_step", directory included.
BasePath(base) == [dir |-> base.dir, prefix |-> base.prefix]

\* pattern = f"{base_path}_step(\\d+)\\.json"
StepPattern(base) == [base_path |-> BasePath(base), rest |-> "_step(\\d+)\\.json"]

\* re.match(f"{base_path}_step(\\d+)\\.json", filename) for a bare file name of the
\* directory listing: the name has no directory part, so a base_path that carries
\* one cannot match at the start of it.
StepMatch(base_path, name) ==
    /\ name.kind = "step"
    /\ base_path.dir = ""
    /\ name.prefix = base_path.prefix
    /\ name.num # <<>>

\* re.search(r'training_epoch(\d+)_test_digit(\d+)_step(\d+)\.json', f)
TrainingMatch(name) ==
    /\ name.kind = "training"
    /\ name.epoch # <<>> /\ name.digit # <<>> /\ name.step # <<>>

(***************************************************************************)
(* list.sort(key=...): a stable sort on integer tuples.                    *)
(***************************************************************************)
RECURSIVE TupleLess(_, _)
\* Python's sequence comparison a < b: the first differing item decides, and a
\* proper prefix is smaller.
TupleLess(a, b) ==
    IF b = <<>> THEN FALSE
    ELSE IF a = <<>> THEN TRUE
    ELSE IF a[1] # b[1] THEN a[1] < b[1]
    ELSE TupleLess(Tail(a), Tail(b))

RECURSIVE InsertByKey(_, _)
\* x goes after every element whose key is not greater than its own.
InsertByKey(sorted, x) ==
    IF sorted = <<>> THEN <<x>>
    ELSE IF TupleLess(x.key, sorted[1].key) THEN <<x>> \o sorted
    ELSE <<sorted[1]>> \o InsertByKey(Tail(sorted), x)

RECURSIVE SortByKey(_)
SortByKey(s) ==
    IF s = <<>> THEN <<>>
    ELSE InsertByKey(SortByKey(SubSeq(s, 1, Len(s) - 1)), s[Len(s)])

(***************************************************************************)
(* Reading files of the searched directory.                                *)
(***************************************************************************)
\* with open(filepath) as f: json.load(f)
ReadFile(ls, filepath) ==
    (CHOOSE e \in Range(ls) : e.name = [filepath EXCEPT !.dir = ""]).data

\* the matched digits kept as text
StepKey_Text(name) == name.num

\* step_num = int(match.group(1)), the sort key x[0]
StepKey(name) == <<IntOf(name.num)>>

\* (epoch, digit, step) = (int(group(1)), int(group(2)), int(group(3)))
TrainingKey(name) == <<IntOf(name.epoch), IntOf(name.digit), IntOf(name.step)>>

RECURSIVE StepFilesFrom(_, _, _, _)
\* for filename in os.listdir(dir_path): ... step_files.append((step_num, path))
StepFilesFrom(ls, base_path, dir_path, i) ==
    IF i > Len(ls) THEN <<>>
    ELSE (IF StepMatch(base_path, ls[i].name)
          THEN <<[key |-> StepKey(ls[i].name),
                  filepath |-> PathJoin(dir_path, ls[i].name)]>>
          ELSE <<>>)
         \o StepFilesFrom(ls, base_path, dir_path, i + 1)

\* step_files.sort(key=lambda x: x[0])
SortedStepFiles(ls, base) ==
    SortByKey(StepFilesFrom(ls, BasePath(base), DirPath(base), 1))

\* if num_steps: step_files = step_files[:num_steps]
\* (num_steps None and num_steps 0 are both falsy: 0 stands for either)
Truncated(sf, n) == IF n = 0 THEN sf ELSE SubSeq(sf, 1, Min(n, Len(sf)))

\* The content of a file that json.load cannot parse.
Corrupt == [corrupt |-> TRUE]

\* The position in sf of the first file json.load raises on, Len(sf) + 1 when
\* every file parses.
FirstUnreadable(ls, sf) ==
    LET bad == {i \in DOMAIN sf : ReadFile(ls, sf[i].filepath) = Corrupt}
    IN IF bad = {} THEN Len(sf) + 1
       ELSE CHOOSE i \in bad : \A j \in bad : i <= j

\* for step_num, filepath in step_files: self.time_steps.append(json.load(f));
\* the frames appended before json.load raises, all of them when it does not.
LoadAll(ls, sf) ==
    [i \in 1..(FirstUnreadable(ls, sf) - 1) |-> ReadFile(ls, sf[i].filepath)]

\* The exception that ends the loading loop, None when it runs to its end.
LoadError(ls, sf) ==
    IF FirstUnreadable(ls, sf) <= Len(sf)
    THEN JSONDecodeError(sf[FirstUnreadable(ls, sf)].filepath)
    ELSE None

RECURSIVE ParsedFilesFrom(_, _, _)
\* for f in training_files: ... parsed_files.append((epoch, digit, step, f));
\* ls stands for the glob result that is searched (dir_path, data/json or the
\* working directory).
ParsedFilesFrom(ls, dir_path, i) ==
    IF i > Len(ls) THEN <<>>
    ELSE (IF TrainingMatch(ls[i].name)
          THEN <<[key |-> TrainingKey(ls[i].name),
                  filepath |-> PathJoin(dir_path, ls[i].name)]>>
          ELSE <<>>)
         \o ParsedFilesFrom(ls, dir_path, i + 1)

\* parsed_files.sort(key=lambda x: (x[0], x[1], x[2]))
SortedParsedFiles(ls, base) == SortByKey(ParsedFilesFrom(ls, DirPath(base), 1))

\* self.frame_info.append({'epoch': epoch, 'digit': digit, 'step': step, 'file': filepath})
FrameInfoOf(pf) ==
    [i \in 1..Len(pf) |->
        [epoch |-> pf[i].key[1], digit |-> pf[i].key[2], step |-> pf[i].key[3],
         file |-> pf[i].filepath]]

(***************************************************************************)
(* Snapshots: {'neurons': [{'id', 'potential', 'spiked', 'spike_count',    *)
(* 'connections': [{'target', 'weight'}]}]}.                               *)
(***************************************************************************)
Neuron(id, potential, spiked, connections) ==
    [id |-> id, potential |-> potential, spiked |-> spiked, spike_count |-> 0,
     connections |-> connections]

\* a neuron entry that lacks the 'spike_count' key
NeuronNoCount(id, potential, spiked, connections) ==
    [id |-> id, potential |-> potential, spiked |-> spiked,
     connections |-> connections]

Conn(target, weight) == [target |-> target, weight |-> weight]

Snapshot(neurons) == [neurons |-> neurons]

\* {n['id']: n for n in data['neurons']}: the last entry of each id wins.
NeuronMap(data) ==
    [id \in {data.neurons[i].id : i \in DOMAIN data.neurons} |->
        LET last == CHOOSE i \in DOMAIN data.neurons :
                        /\ data.neurons[i].id = id
                        /\ \A j \in DOMAIN data.neurons :
                               data.neurons[j].id = id => j <= i
        IN data.neurons[last]]

(***************************************************************************)
(* NetworkVisualizer._detect_active_connections                            *)
(***************************************************************************)
PotentialThreshold == 1

\* a rise of exactly the threshold counts as well
ReceivedSpike_AtThreshold(neuron, prev_neuron) ==
    neuron.potential - prev_neuron.potential >= PotentialThreshold

\* any potential that did not fall counts as a received spike
ReceivedSpike_NotFallen(neuron, prev_neuron) ==
    neuron.potential - prev_neuron.potential >= 0

\* potential_increase > 0.01
ReceivedSpike(neuron, prev_neuron) ==
    neuron.potential - prev_neuron.potential > PotentialThreshold

\* the operands of the rising-edge test swapped
JustSpiked_Falling(neuron, prev_neuron) == ~neuron.spiked /\ prev_neuron.spiked

\* neuron['spiked'] and not prev_neuron['spiked']
JustSpiked(neuron, prev_neuron) == neuron.spiked /\ ~prev_neuron.spiked

\* for conn in neuron['connections']: active_edges.add((neuron_id, conn['target']))
OutgoingEdges(neuron) ==
    {<<neuron.id, neuron.connections[k].target>> : k \in DOMAIN neuron.connections}

\* the spiked neurons of previous_data that list a connection to neuron_id
SpikedFeeders(previous, neuron_id) ==
    {<<previous.neurons[i].id, neuron_id>> :
        i \in {j \in DOMAIN previous.neurons :
                  /\ previous.neurons[j].spiked
                  /\ \E k \in DOMAIN previous.neurons[j].connections :
                         previous.neurons[j].connections[k].target = neuron_id}}

\* a missing previous snapshot read as "nothing had spiked before"
NoPrevious_QuietStart(current) ==
    UNION {IF current.neurons[i].spiked THEN OutgoingEdges(current.neurons[i]) ELSE {}
           : i \in DOMAIN current.neurons}

\* if self.previous_data is None: return active_edges
NoPrevious(current) == {}

\* the loop over current_data['neurons'] with both rules
DetectBetween(previous, current) ==
    LET prev_neurons == NeuronMap(previous)
    IN UNION {
         LET neuron == current.neurons[i]
         IN IF neuron.id \in DOMAIN prev_neurons
            THEN (IF JustSpiked(neuron, prev_neurons[neuron.id])
                  THEN OutgoingEdges(neuron) ELSE {})
                 \cup
                 (IF ReceivedSpike(neuron, prev_neurons[neuron.id])
                  THEN SpikedFeeders(previous, neuron.id) ELSE {})
            ELSE {}
         : i \in DOMAIN current.neurons}

DetectActiveConnections(previous, current) ==
    IF previous = None THEN NoPrevious(current) ELSE DetectBetween(previous, current)

(***************************************************************************)
(* _build_graph: a networkx DiGraph as (nodes in insertion order, node     *)
(* attributes, edge weights).                                              *)
(***************************************************************************)
RECURSIVE AllConnections(_, _)
\* for neuron in neurons: for conn in neuron['connections']: (id, target, weight)
AllConnections(neurons, i) ==
    IF i > Len(neurons) THEN <<>>
    ELSE [k \in DOMAIN neurons[i].connections |->
             [u |-> neurons[i].id, v |-> neurons[i].connections[k].target,
              weight |-> neurons[i].connections[k].weight]]
         \o AllConnections(neurons, i + 1)

RECURSIVE AddNodes(_, _)
\* add_node / add_edge keep a node's first position.
AddNodes(nodes, ids) ==
    IF ids = <<>> THEN nodes
    ELSE AddNodes(IF ids[1] \in Range(nodes) THEN nodes ELSE Append(nodes, ids[1]),
                  Tail(ids))

RECURSIVE EndPoints(_)
EndPoints(conns) ==
    IF conns = <<>> THEN <<>>
    ELSE <<conns[1].u, conns[1].v>> \o EndPoints(Tail(conns))

\* add_edge(u, v, weight=w): the last weight given for (u, v) stays.
EdgeWeights(conns) ==
    [e \in {<<conns[i].u, conns[i].v>> : i \in DOMAIN conns} |->
        LET last == CHOOSE i \in DOMAIN conns :
                        /\ <<conns[i].u, conns[i].v>> = e
                        /\ \A j \in DOMAIN conns :
                               <<conns[j].u, conns[j].v>> = e => j <= i
        IN conns[last].weight]

\* NetworkVisualizer._build_graph: nodes carry potential, spiked, spike_count.
BuildGraph(data) ==
    LET conns == AllConnections(data.neurons, 1)
        ids == [i \in DOMAIN data.neurons |-> data.neurons[i].id]
    IN [nodes |-> AddNodes(AddNodes(<<>>, ids), EndPoints(conns)),
        attrs |-> NeuronMap(data),
        edges |-> EdgeWeights(conns)]

\* Spike3DAnimator._build_graph / TrainingAnimator._build_graph: bare nodes,
\* built from the first time step.
BuildGraph3D(steps) ==
    LET data == steps[1]
        conns == AllConnections(data.neurons, 1)
        ids == [i \in DOMAIN data.neurons |-> data.neurons[i].id]
    IN [nodes |-> AddNodes(AddNodes(<<>>, ids), EndPoints(conns)),
        attrs |-> <<>>,
        edges |-> EdgeWeights(conns)]

(***************************************************************************)
(* NetworkVisualizer.draw_network: the detector is evaluated, then every   *)
(* node's attributes and every active edge's weight are looked up.  A node *)
(* that exists only as a connection target has no attributes, and an       *)
(* active edge that is no edge of G has no weight: both raise KeyError.    *)
(***************************************************************************)
DrawRaises(g, active_edges) ==
    \/ \E n \in Range(g.nodes) : n \notin DOMAIN g.attrs
    \/ \E e \in active_edges : e \notin DOMAIN g.edges

DrawNetwork(g, previous, current, step_info) ==
    LET active_edges == DetectActiveConnections(previous, current)
    IN [ok |-> ~DrawRaises(g, active_edges),
        step |-> step_info,
        active |-> active_edges,
        inactive |-> {e \in DOMAIN g.edges : e \notin active_edges}]

(***************************************************************************)
(* Spike3DAnimator._draw_frame / TrainingAnimator._draw_frame: an edge is  *)
(* drawn active when its target is spiked in the frame's neuron map;       *)
(* ids missing from the map fall back to defaults (neuron_map.get).        *)
(***************************************************************************)
\* intensity = min(1.0, max(0.0, potential)), in units of 0.01
Intensity(potential) == Min(100, IF potential < 0 THEN 0 ELSE potential)

\* the colour and size of a node: red and 300 when spiked, else viridis(intensity)
\* and 100 + intensity * 100
NodeLook(spiked, potential) ==
    IF spiked THEN [color |-> "#FF0000", size |-> 300]
    ELSE [color |-> <<"viridis", Intensity(potential)>>,
          size |-> 100 + Intensity(potential)]

\* every entry of the frame is drawn, whether or not it is a node of G
NodeStates3D_AllEntries(g, neuron_map) ==
    [n \in Range(g.nodes) \cup DOMAIN neuron_map |->
        IF n \in DOMAIN neuron_map
        THEN NodeLook(neuron_map[n].spiked, neuron_map[n].potential)
        ELSE NodeLook(FALSE, 0)]

\* for node_id in self.G.nodes(): neuron_data = neuron_map.get(node_id, {});
\* potential = neuron_data.get('potential', 0.0); spiked = neuron_data.get('spiked', False)
NodeStates3D(g, neuron_map) ==
    [n \in Range(g.nodes) |->
        IF n \in DOMAIN neuron_map
        THEN NodeLook(neuron_map[n].spiked, neuron_map[n].potential)
        ELSE NodeLook(FALSE, 0)]

\* 'neurons' in data: data['neurons'] raises KeyError otherwise
HasNeurons(data) == "neurons" \in DOMAIN data

\* _get_neuron_data(step_idx) reads data['neurons'] first: a frame without that
\* key raises KeyError before anything is drawn.
DrawFrame3D(g, steps, idx) ==
    IF ~HasNeurons(steps[idx + 1])
    THEN [ok |-> FALSE, step |-> idx, active |-> {}, inactive |-> {}, nodes |-> <<>>]
    ELSE
    LET neuron_map == NeuronMap(steps[idx + 1])
        active_edges == {e \in DOMAIN g.edges :
                            e[2] \in DOMAIN neuron_map /\ neuron_map[e[2]].spiked}
    IN [ok |-> TRUE,
        step |-> idx,
        active |-> active_edges,
        inactive |-> {e \in DOMAIN g.edges : e \notin active_edges},
        nodes |-> NodeStates3D(g, neuron_map)]

(***************************************************************************)
(* _calculate_3d_layout.  Coordinates are in units of 0.1.  A point on a   *)
(* circle is exact at angle 0 (cos 0 = 1, sin 0 = 0); at any other angle   *)
(* it is kept as the radius and the fraction i/n of the full turn.         *)
(***************************************************************************)
\* dict(self.G.in_degree())[n]
InDegree(g, n) == Cardinality({e \in DOMAIN g.edges : e[2] = n})

\* dict(self.G.out_degree())[n]
OutDegree(g, n) == Cardinality({e \in DOMAIN g.edges : e[1] = n})

\* [n for n in self.G.nodes() if in_degree[n] == 0]
InputNodes(g) == SelectSeq(g.nodes, LAMBDA n : InDegree(g, n) = 0)

\* [n for n in self.G.nodes() if out_degree[n] == 0]
OutputNodes(g) == SelectSeq(g.nodes, LAMBDA n : OutDegree(g, n) = 0)

\* [n for n in self.G.nodes() if n not in input_nodes and n not in output_nodes]
HiddenNodes(g) ==
    SelectSeq(g.nodes, LAMBDA n : /\ n \notin Range(InputNodes(g))
                                  /\ n \notin Range(OutputNodes(g)))

\* the i of "for i, node_id in enumerate(nodes)"
IndexOf(nodes, n) == (CHOOSE i \in DOMAIN nodes : nodes[i] = n) - 1

\* np.array([x, y, z])
Point(x, y, z) == [x |-> x, y |-> y, z |-> z]

\* (radius * cos(angle), radius * sin(angle), z) with angle = 2 * pi * i / n
OnCircle(radius, i, n, z) ==
    IF i = 0 THEN Point(radius, 0, z)
    ELSE [radius |-> radius, turn |-> <<i, n>>, z |-> z]

\* x = -2.0 + (i % 7) * 0.6; y = -1.0 + (i // 7) * 0.6; z = 0
InputPosition(i) == Point(-20 + (i % 7) * 6, -10 + (i \div 7) * 6, 0)

\* angle = 2 * pi * i / len(hidden_nodes); radius = 1.5; z = 1
HiddenPosition(i, n) == OnCircle(15, i, n, 10)

\* every output node at the start of the output row
OutputPosition_Stacked(i) == Point(-15, 20, 20)

\* x = -1.5 + i * 0.3; y = 2.0; z = 2
OutputPosition(i) == Point(-15 + i * 3, 20, 20)

\* 'layered': pos_3d is filled by the input loop, then the hidden loop, then the
\* output loop; a later assignment to a node replaces an earlier one.
LayeredLayout(g) ==
    LET input_nodes == InputNodes(g)
        hidden_nodes == HiddenNodes(g)
        output_nodes == OutputNodes(g)
    IN [n \in Range(g.nodes) |->
           IF n \in Range(output_nodes)
           THEN OutputPosition(IndexOf(output_nodes, n))
           ELSE IF n \in Range(hidden_nodes)
           THEN HiddenPosition(IndexOf(hidden_nodes, n), Len(hidden_nodes))
           ELSE InputPosition(IndexOf(input_nodes, n))]

\* 'spring' and 'circular': z = 0 if in_degree == 0, elif out_degree == 0: 2, else 1
DegreeDepth(g, n) ==
    IF InDegree(g, n) = 0 THEN 0
    ELSE IF OutDegree(g, n) = 0 THEN 20
    ELSE 10

\* 'spring': x, y from nx.spring_layout(G, k=2, iterations=50, seed=42), kept
\* as the node they belong to
SpringLayout(g) ==
    [n \in Range(g.nodes) |-> [xy |-> <<"spring_layout", n>>, z |-> DegreeDepth(g, n)]]

\* 'circular': angles = np.linspace(0, 2*pi, num_nodes, endpoint=False), radius 2.0
CircularLayout(g) ==
    [n \in Range(g.nodes) |->
        OnCircle(20, IndexOf(g.nodes, n), Len(g.nodes), DegreeDepth(g, n))]

\* 'spherical': phi = linspace(0, pi, num)[i], theta = linspace(0, 2*pi, num)[i],
\* radius 2.0; exact at i = 0 (the pole), else kept as the two angle fractions
SphericalLayout(g) ==
    [n \in Range(g.nodes) |->
        LET i == IndexOf(g.nodes, n)
        IN IF i = 0 THEN Point(0, 0, 20)
           ELSE [radius |-> 20, phi |-> <<i, Len(g.nodes) - 1>>,
                 theta |-> <<i, Len(g.nodes) - 1>>]]

LayoutTypes == {"spring", "circular", "layered", "spherical"}

\* self.pos_3d = {} filled node by node: a dictionary, as opposed to None
Dict(f) == [dict |-> f]

\* the unknown name clears the old layout before the error is raised
Calculate3DLayout_Cleared(g, lt, old) ==
    CASE lt = "spring" -> Dict(SpringLayout(g))
      [] lt = "circular" -> Dict(CircularLayout(g))
      [] lt = "layered" -> Dict(LayeredLayout(g))
      [] lt = "spherical" -> Dict(SphericalLayout(g))
      [] OTHER -> None

\* Network3DVisualizer._calculate_3d_layout(layout_type): the new self.pos_3d;
\* the else branch raises and assigns nothing.
Calculate3DLayout(g, lt, old) ==
    CASE lt = "spring" -> Dict(SpringLayout(g))
      [] lt = "circular" -> Dict(CircularLayout(g))
      [] lt = "layered" -> Dict(LayeredLayout(g))
      [] lt = "spherical" -> Dict(SphericalLayout(g))
      [] OTHER -> old

(***************************************************************************)
(* update_frame: the index of the frame to show.                           *)
(***************************************************************************)
\* the loop flag ignored: always clamped
NetStepIndex_Clamped(f, n, lp) == Min(f, n - 1)

\* the loop flag ignored: always wrapped
NetStepIndex_Wrapped(f, n, lp) == f % n

\* visualize_network.py: frame % len(self.time_steps) if loop else min(frame, len - 1)
NetStepIndex(f, n, lp) == IF lp THEN f % n ELSE Min(f, n - 1)

\* animate_3d_spiking.py
Spike3DStepIndex(f, n, lp) == IF lp THEN f % n ELSE Min(f, n - 1)

\* the loop flag ignored: always clamped
TrainingStepIndex_Clamped(f, n, lp) == Min(f, n - 1)

\* animate_training.py
TrainingStepIndex(f, n, lp) == IF lp THEN f % n ELSE Min(f, n - 1)

\* the dictionary rebuilt from this tick's edges alone
CountActive_Fresh(activity, active) == [e \in active |-> 1]

\* counted once by the drawing pass and once more by the counting pass
CountActive_Twice(activity, active) ==
    [e \in DOMAIN activity \cup active |->
        (IF e \in DOMAIN activity THEN activity[e] ELSE 0)
        + (IF e \in active THEN 2 ELSE 0)]

\* for edge in active: connection_activity[edge] (created at 0) += 1
CountActive(activity, active) ==
    [e \in DOMAIN activity \cup active |->
        (IF e \in DOMAIN activity THEN activity[e] ELSE 0)
        + (IF e \in active THEN 1 ELSE 0)]

\* the previous snapshot taken by index: frame idx - 1, or None at index 0
NextPrevious_ByIndex(current, steps, idx) == IF idx = 0 THEN None ELSE steps[idx]

\* self.previous_data = self.current_data
NextPrevious(current, steps, idx) == current

(***************************************************************************)
(* Inputs of playback: recorded snapshots over two neurons, 1 feeding 2.   *)
(***************************************************************************)
Potentials == {0, 2}

PlaybackSnapshots ==
    {Snapshot(<<Neuron(1, 0, sp, c), Neuron(2, p, FALSE, <<>>)>>) :
        sp \in BOOLEAN, c \in {<<>>, <<Conn(2, 4)>>}, p \in Potentials}
    \cup
    \* neuron 2 named only as a connection target
    {Snapshot(<<Neuron(1, 0, sp, <<Conn(2, 4)>>)>>) : sp \in BOOLEAN}

\* A file holding a JSON object that has no 'neurons' key.
NoNeurons == [network |-> "empty"]

\* Recorded snapshots of the 3D animators: 1 feeds 2, either may be spiked.
\* A frame may also carry a third neuron, spiked and charged, that other frames
\* do not know, or be an object without neurons.
Playback3DSnapshots ==
    {Snapshot(<<Neuron(1, 0, sp, <<Conn(2, 4)>>)>> \o n2 \o n3) :
        sp \in BOOLEAN,
        n2 \in {<<>>} \cup {<<Neuron(2, 0, sp2, <<>>)>> : sp2 \in BOOLEAN},
        n3 \in {<<>>, <<Neuron(3, 2, TRUE, <<>>)>>}}
    \cup {NoNeurons}

\* net_step<i>.json / training_epoch0_test_digit0_step<i>.json, i = 0, 1, ...
PlaybackName(kind, i) ==
    IF kind = "training" THEN TrainingName("", <<0>>, <<0>>, <<i>>)
    ELSE StepName("", "net", <<i>>)

PlaybackListings(kind) ==
    UNION {{[i \in 1..n |-> [name |-> PlaybackName(kind, i - 1), data |-> d[i]]] :
               d \in [1..n -> IF kind = "network" THEN PlaybackSnapshots
                                ELSE Playback3DSnapshots]} : n \in 1..MaxFrames}

NoDraw == [ok |-> TRUE, step |-> -1, active |-> {}, inactive |-> {}]

(***************************************************************************)
(* NetworkVisualizer                                                       *)
(***************************************************************************)
\* NetworkVisualizer(json_file=base): load_from_file, _build_graph.
InitNetwork ==
    /\ animator = "network"
    /\ listing \in PlaybackListings("network")
    /\ base_filename = listing[1].name
    /\ step_files = <<>>
    /\ time_steps = <<>>
    /\ frame_info = <<>>
    /\ current_data = ReadFile(listing, base_filename)
    /\ previous_data = None
    /\ G = BuildGraph(current_data)
    /\ connection_activity = <<>>
    /\ playing = FALSE
    /\ loop = FALSE
    /\ frame = 0
    /\ step_idx = -1
    /\ drawn = NoDraw
    /\ ticks = 0
    /\ raised = None
    /\ pos_3d = None
    /\ layout_type = ""
    /\ printed = None

\* show_static: draw_network on the data held now.
NetShowStatic ==
    /\ animator = "network"
    /\ ~playing
    /\ drawn' = DrawNetwork(G, previous_data, current_data, -1)
    /\ raised' = IF drawn'.ok THEN None ELSE KeyError
    /\ UNCHANGED <<printed, pos_3d, layout_type, ticks, animator, listing, base_filename, step_files,
                   time_steps, frame_info, current_data, previous_data, G,
                   connection_activity, playing, loop, frame, step_idx>>

\* load_time_series(base_filename, n)
NetLoadTimeSeries(n) ==
    /\ animator = "network"
    /\ ~playing
    /\ step_files' = Truncated(SortedStepFiles(listing, base_filename), n)
    /\ time_steps' = LoadAll(listing, step_files')
    /\ raised' = IF LoadError(listing, step_files') # None
                 THEN LoadError(listing, step_files')
                 ELSE IF time_steps' = <<>>
                      THEN NoStepFiles(StepPattern(base_filename))
                      ELSE None
    /\ UNCHANGED <<printed, pos_3d, layout_type, ticks, animator, listing, base_filename, frame_info, current_data,
                   previous_data, G, connection_activity, playing, loop, frame,
                   step_idx, drawn>>

\* the snapshot pair is cleared before the sequence is looked at
NetAnimateTimeSeries_ClearsFirst(lp) ==
    /\ animator = "network"
    /\ ~playing
    /\ IF time_steps = <<>>
       THEN /\ raised' = NoTimeSeries
            /\ current_data' = None
            /\ previous_data' = None
            /\ UNCHANGED <<G, playing, loop, frame, step_idx>>
       ELSE /\ current_data' = time_steps[1]
            /\ previous_data' = None
            /\ G' = BuildGraph(current_data')
            /\ playing' = TRUE
            /\ loop' = lp
            /\ frame' = 0
            /\ step_idx' = -1
            /\ raised' = None
    /\ UNCHANGED <<printed, pos_3d, layout_type, ticks, animator, listing, base_filename, step_files,
                   time_steps, frame_info, connection_activity, drawn>>

\* animate_time_series(loop=lp) up to plt.show()
NetAnimateTimeSeries(lp) ==
    /\ animator = "network"
    /\ ~playing
    /\ IF time_steps = <<>>
       THEN /\ raised' = NoTimeSeries
            /\ UNCHANGED <<pos_3d, layout_type, current_data, previous_data, G, playing, loop, frame,
                           step_idx>>
       ELSE /\ current_data' = time_steps[1]
            /\ previous_data' = None
            /\ G' = BuildGraph(current_data')
            /\ playing' = TRUE
            /\ loop' = lp
            /\ frame' = 0
            /\ step_idx' = -1
            /\ raised' = None
    /\ UNCHANGED <<printed, pos_3d, layout_type, ticks, animator, listing, base_filename, step_files,
                   time_steps, frame_info, connection_activity, drawn>>

\* update_frame(frame) of animate_time_series, the except clause included.
NetUpdateFrame ==
    /\ animator = "network"
    /\ playing
    /\ ticks < MaxTicks
    /\ ticks' = ticks + 1
    /\ step_idx' = NetStepIndex(frame, Len(time_steps), loop)
    /\ previous_data' = NextPrevious(current_data, time_steps, step_idx')
    /\ current_data' = time_steps[step_idx' + 1]
    /\ G' = BuildGraph(current_data')
    /\ drawn' = DrawNetwork(G', previous_data', current_data', step_idx')
    /\ connection_activity' =
          IF drawn'.ok
          THEN CountActive(connection_activity,
                           DetectActiveConnections(previous_data', current_data'))
          ELSE connection_activity
    /\ frame' = frame + 1
    /\ raised' = None
    /\ UNCHANGED <<printed, pos_3d, layout_type, animator, listing, base_filename, step_files,
                   time_steps, frame_info, playing, loop>>

\* The window is closed: plt.show() returns and the timer stops.
CloseWindow ==
    /\ playing
    /\ playing' = FALSE
    /\ raised' = None
    /\ UNCHANGED <<printed, pos_3d, layout_type, ticks, animator, listing, base_filename, step_files,
                   time_steps, frame_info, current_data, previous_data, G,
                   connection_activity, loop, frame, step_idx, drawn>>

(***************************************************************************)
(* Spike3DAnimator and TrainingAnimator                                    *)
(***************************************************************************)
\* Spike3DAnimator(base): _load_time_series, _build_graph.
InitSpike3D ==
    /\ animator = "spike3d"
    /\ listing \in PlaybackListings("spike3d")
    /\ HasNeurons(listing[1].data)
    /\ base_filename = listing[1].name
    /\ step_files = SortedStepFiles(listing, base_filename)
    /\ step_files # <<>>
    /\ time_steps = LoadAll(listing, step_files)
    /\ frame_info = <<>>
    /\ current_data = None
    /\ previous_data = None
    /\ G = BuildGraph3D(time_steps)
    /\ connection_activity = <<>>
    /\ playing = FALSE
    /\ loop = FALSE
    /\ frame = 0
    /\ step_idx = -1
    /\ drawn = NoDraw
    /\ ticks = 0
    /\ raised = None
    /\ pos_3d = Dict(LayeredLayout(G))
    /\ layout_type = "layered"
    /\ printed = None

\* TrainingAnimator(base): _load_training_frames, _build_graph.
InitTraining ==
    /\ animator = "training"
    /\ listing \in PlaybackListings("training")
    /\ HasNeurons(listing[1].data)
    /\ base_filename = listing[1].name
    /\ step_files = SortedParsedFiles(listing, base_filename)
    /\ step_files # <<>>
    /\ time_steps = LoadAll(listing, step_files)
    /\ frame_info = FrameInfoOf(step_files)
    /\ current_data = None
    /\ previous_data = None
    /\ G = BuildGraph3D(time_steps)
    /\ connection_activity = <<>>
    /\ playing = FALSE
    /\ loop = FALSE
    /\ frame = 0
    /\ step_idx = -1
    /\ drawn = NoDraw
    /\ ticks = 0
    /\ raised = None
    /\ pos_3d = Dict(LayeredLayout(G))
    /\ layout_type = "layered"
    /\ printed = None

\* animate(loop=lp) up to plt.show()
Animate3D(who, lp) ==
    /\ animator = who
    /\ ~playing
    /\ playing' = TRUE
    /\ loop' = lp
    /\ frame' = 0
    /\ step_idx' = -1
    /\ raised' = None
    /\ UNCHANGED <<printed, pos_3d, layout_type, ticks, animator, listing, base_filename, step_files,
                   time_steps, frame_info, current_data, previous_data, G,
                   connection_activity, drawn>>

Spike3DAnimate(lp) == Animate3D("spike3d", lp)

TrainingAnimate(lp) == Animate3D("training", lp)

\* FuncAnimation(frames=len(self.time_steps) if not loop else None, repeat=loop):
\* without loop the timer hands out 0 .. len-1 and stops.
TimerArmed3D == playing /\ ticks < MaxTicks /\ (loop \/ frame < Len(time_steps))

\* Spike3DAnimator.animate.update_frame(frame).  There is no except clause: a
\* KeyError of _draw_frame leaves update_frame and reaches the timer that called
\* it; whether that timer fires again is up to the GUI backend.
Spike3DUpdateFrame ==
    /\ animator = "spike3d"
    /\ TimerArmed3D
    /\ ticks' = ticks + 1
    /\ step_idx' = Spike3DStepIndex(frame, Len(time_steps), loop)
    /\ drawn' = DrawFrame3D(G, time_steps, step_idx')
    /\ frame' = frame + 1
    /\ raised' = IF drawn'.ok THEN None ELSE KeyError
    /\ playing' \in IF drawn'.ok THEN {playing} ELSE BOOLEAN
    /\ UNCHANGED <<printed, pos_3d, layout_type, animator, listing, base_filename, step_files,
                   time_steps, frame_info, current_data, previous_data, G,
                   connection_activity, loop>>

\* TrainingAnimator.animate.update_frame(frame), as above.
TrainingUpdateFrame ==
    /\ animator = "training"
    /\ TimerArmed3D
    /\ ticks' = ticks + 1
    /\ step_idx' = TrainingStepIndex(frame, Len(time_steps), loop)
    /\ drawn' = DrawFrame3D(G, time_steps, step_idx')
    /\ frame' = frame + 1
    /\ raised' = IF drawn'.ok THEN None ELSE KeyError
    /\ playing' \in IF drawn'.ok THEN {playing} ELSE BOOLEAN
    /\ UNCHANGED <<printed, pos_3d, layout_type, animator, listing, base_filename, step_files,
                   time_steps, frame_info, current_data, previous_data, G,
                   connection_activity, loop>>

Init == InitNetwork \/ InitSpike3D \/ InitTraining

Next ==
    \/ NetShowStatic
    \/ \E n \in 0..MaxFrames : NetLoadTimeSeries(n)
    \/ \E lp \in BOOLEAN : NetAnimateTimeSeries(lp)
    \/ NetUpdateFrame
    \/ CloseWindow
    \/ \E lp \in BOOLEAN : Spike3DAnimate(lp)
    \/ \E lp \in BOOLEAN : TrainingAnimate(lp)
    \/ Spike3DUpdateFrame
    \/ TrainingUpdateFrame

Spec == Init /\ [][Next]_vars

(***************************************************************************)
(* Loading alone: directories with arbitrary file names in arbitrary       *)
(* listing order.  The i-th listed file holds a one-neuron snapshot with   *)
(* id i, so a loaded frame tells which file it was read from.  At most one *)
(* file of a directory is damaged: not JSON at all, or a snapshot whose    *)
(* neuron entry lacks spike_count.                                         *)
(***************************************************************************)
StepNumbers == {<<0>>, <<1>>, <<2>>, <<0, 1>>, <<1, 0>>}

StepFileNames ==
    {StepName("", "net", num) : num \in StepNumbers} \cup {StepName("", "aux", <<0>>)}

TrainingFileNames ==
    {TrainingName("", e, d, st) :
        e \in {<<0>>, <<1>>}, d \in {<<0>>, <<1>>}, st \in {<<2>>, <<1, 0>>, <<0, 2>>}}
    \cup {TrainingName("", <<0>>, <<0>>, <<>>)}

FileData(i) == Snapshot(<<Neuron(i, 0, FALSE, <<>>)>>)

Damage == {"corrupt", "no_spike_count"}

DamagedFileData(kind, i) ==
    IF kind = "corrupt" THEN Corrupt
    ELSE Snapshot(<<NeuronNoCount(i, 0, FALSE, <<>>)>>)

ListingsOver(names) ==
    {[i \in DOMAIN ns |->
         [name |-> ns[i],
          data |-> IF i = bad THEN DamagedFileData(kind, i) ELSE FileData(i)]] :
        ns \in {x \in SeqsOf(names, 0, MaxFiles) : Injective(x)},
        bad \in 0..MaxFiles, kind \in Damage}

\* The state the three programs are in when they start to load.
InitLoad ==
    /\ animator \in {"network", "spike3d", "training"}
    /\ listing \in ListingsOver(IF animator = "training" THEN TrainingFileNames
                                ELSE StepFileNames)
    /\ base_filename \in
          IF animator = "training"
          THEN {TrainingName(d, <<0>>, <<0>>, <<0>>) : d \in {"", "data"}}
          ELSE {StepName(d, "net", num) : d \in {"", "data"}, num \in {<<>>, <<0>>}}
    /\ step_files = <<>>
    /\ time_steps = <<>>
    /\ frame_info = <<>>
    /\ current_data = IF animator = "network" THEN FileData(0) ELSE None
    /\ previous_data = None
    /\ G = IF animator = "network" THEN BuildGraph(current_data) ELSE None
    /\ connection_activity = <<>>
    /\ playing = FALSE
    /\ loop = FALSE
    /\ frame = 0
    /\ step_idx = -1
    /\ drawn = NoDraw
    /\ ticks = 0
    /\ raised = None
    /\ pos_3d = None
    /\ layout_type = ""
    /\ printed = None

\* Spike3DAnimator.__init__: _load_time_series, _build_graph, _calculate_3d_layout.
\* An exception leaves __init__ before the caller gets the object, so the frames
\* appended to it so far are out of reach: the caller holds no animator.
Spike3DConstruct ==
    /\ animator = "spike3d"
    /\ G = None
    /\ step_files' = SortedStepFiles(listing, base_filename)
    /\ raised' = IF step_files' = <<>>
                 THEN NoStepFiles(StepPattern(base_filename))
                 ELSE LoadError(listing, step_files')
    /\ IF raised' = None
       THEN /\ time_steps' = time_steps \o LoadAll(listing, step_files')
            /\ G' = BuildGraph3D(time_steps')
            /\ pos_3d' = Dict(LayeredLayout(G'))
            /\ layout_type' = "layered"
       ELSE UNCHANGED <<time_steps, G, pos_3d, layout_type>>
    /\ UNCHANGED <<printed, animator, listing, base_filename, frame_info, current_data,
                   previous_data, connection_activity, playing, loop, frame,
                   step_idx, drawn, ticks>>

\* TrainingAnimator.__init__: _load_training_frames, _build_graph,
\* _calculate_3d_layout; as above when an exception leaves it.
TrainingConstruct ==
    /\ animator = "training"
    /\ G = None
    /\ step_files' = SortedParsedFiles(listing, base_filename)
    /\ raised' = IF step_files' = <<>> THEN NoTrainingFiles
                 ELSE LoadError(listing, step_files')
    /\ IF raised' = None
       THEN /\ time_steps' = time_steps \o LoadAll(listing, step_files')
            /\ frame_info' = frame_info \o FrameInfoOf(step_files')
            /\ G' = BuildGraph3D(time_steps')
            /\ pos_3d' = Dict(LayeredLayout(G'))
            /\ layout_type' = "layered"
       ELSE UNCHANGED <<time_steps, frame_info, G, pos_3d, layout_type>>
    /\ UNCHANGED <<printed, animator, listing, base_filename, current_data, previous_data,
                   connection_activity, playing, loop, frame, step_idx, drawn, ticks>>

NextLoad ==
    \/ \E n \in 0..MaxFiles : NetLoadTimeSeries(n)
    \/ Spike3DConstruct
    \/ TrainingConstruct

SpecLoad == InitLoad /\ [][NextLoad]_vars

(***************************************************************************)
(* Network3DVisualizer (visualize_3d.py): one snapshot, drawn under a      *)
(* layout strategy chosen by name.                                         *)
(***************************************************************************)
MaxNodes == 3

\* Snapshots of neurons 1..k, each with no connection or one connection to an
\* id of 1..MaxNodes (itself, another neuron, or an id without an entry).
LayoutSnapshots ==
    UNION {{Snapshot([i \in 1..k |-> Neuron(i, 0, FALSE, c[i])]) :
               c \in [1..k -> {<<>>} \cup {<<Conn(t, 4)>> : t \in 1..MaxNodes}]}
           : k \in 1..MaxNodes}

\* The four strategies and a name that is none of them.
LayoutNames == LayoutTypes \cup {"force"}

\* Network3DVisualizer._build_graph
Net3DBuildGraph(data) == BuildGraph(data)

\* Network3DVisualizer(json_file=...): load_from_file, _build_graph.
Init3DNetwork ==
    /\ animator = "network3d"
    /\ listing \in {<<[name |-> StepName("", "net", <<>>), data |-> d]>> :
                        d \in LayoutSnapshots}
    /\ base_filename = listing[1].name
    /\ step_files = <<>>
    /\ time_steps = <<>>
    /\ frame_info = <<>>
    /\ current_data = ReadFile(listing, base_filename)
    /\ previous_data = None
    /\ G = Net3DBuildGraph(current_data)
    /\ connection_activity = <<>>
    /\ playing = FALSE
    /\ loop = FALSE
    /\ frame = 0
    /\ step_idx = -1
    /\ drawn = NoDraw
    /\ ticks = 0
    /\ raised = None
    /\ pos_3d = None
    /\ layout_type = ""
    /\ printed = None

\* draw_3d_network(layout_type=lt): _calculate_3d_layout(lt), then the node loop
\* reads potential, spiked and spike_count of every node of G (KeyError for a
\* node that is only a connection target), then everything is plotted.
Draw3DNetwork(lt) ==
    /\ animator = "network3d"
    /\ layout_type' = lt
    /\ pos_3d' = Calculate3DLayout(G, lt, pos_3d)
    /\ raised' = IF lt \notin LayoutTypes THEN UnknownLayoutType(lt)
                 ELSE IF \E n \in Range(G.nodes) : n \notin DOMAIN G.attrs
                      THEN KeyError
                      ELSE None
    /\ drawn' = IF raised' # None THEN drawn
                ELSE [ok |-> TRUE, step |-> -1, active |-> {},
                      inactive |-> DOMAIN G.edges,
                      nodes |-> [n \in Range(G.nodes) |->
                                    [color |-> IF G.attrs[n].spiked THEN "#FF0000"
                                               ELSE <<"viridis",
                                                      Intensity(G.attrs[n].potential)>>,
                                     pos |-> pos_3d'.dict[n]]]]
    /\ UNCHANGED <<printed, animator, listing, base_filename, step_files, time_steps,
                   frame_info, current_data, previous_data, G, connection_activity,
                   playing, loop, frame, step_idx, ticks>>

NextLayout == \E lt \in LayoutNames : Draw3DNetwork(lt)

SpecLayout == Init3DNetwork /\ [][NextLayout]_vars

(***************************************************************************)
(* NetworkVisualizer.show_connection_statistics.  The dictionary hands out *)
(* its items in the order the edges were first counted; within one tick    *)
(* that is the iteration order of a set, so the model lets the items come  *)
(* in ascending or in descending order of the edge.                        *)
(***************************************************************************)
MaxEdges == 11

\* sorted_connections[:10]
TopCount == 10

\* ids of the neurons named by the counters the statistics are taken of
StatIds == 4

\* the edges over StatIds, numbered 1, 2, ...: (1,1), (1,2), ..., (2,1), ...
EdgeAt(i) == <<((i - 1) \div StatIds) + 1, ((i - 1) % StatIds) + 1>>

Reverse(s) == [i \in DOMAIN s |-> s[Len(s) + 1 - i]]

\* self.connection_activity.items(): (edge, count) pairs
ItemsAscending(activity) ==
    LET edges == SelectSeq([i \in 1..(StatIds * StatIds) |-> EdgeAt(i)],
                           LAMBDA e : e \in DOMAIN activity)
    IN [i \in DOMAIN edges |-> <<edges[i], activity[edges[i]]>>]

ItemOrders(activity) ==
    {ItemsAscending(activity), Reverse(ItemsAscending(activity))}

\* sorted(..., key=lambda x: x[1], reverse=True) keeps items of equal count in
\* their given order: an item goes after every item whose count is not smaller.
InsertByCount(sorted, item) ==
    LET k == Cardinality({i \in DOMAIN sorted : sorted[i][2] >= item[2]})
    IN SubSeq(sorted, 1, k) \o <<item>> \o SubSeq(sorted, k + 1, Len(sorted))

RECURSIVE SortedByCount(_)
SortedByCount(items) ==
    IF items = <<>> THEN <<>>
    ELSE InsertByCount(SortedByCount(SubSeq(items, 1, Len(items) - 1)),
                       items[Len(items)])

\* the whole sorted list is printed
TopConnections_All(sorted) == sorted

\* sorted_connections[:10]
TopConnections(sorted) == SubSeq(sorted, 1, Min(TopCount, Len(sorted)))

RECURSIVE SumValues(_)
\* sum(self.connection_activity.values())
SumValues(activity) ==
    IF DOMAIN activity = {} THEN 0
    ELSE LET e == CHOOSE x \in DOMAIN activity : TRUE
         IN activity[e] + SumValues([x \in DOMAIN activity \ {e} |-> activity[x]])

\* print("No connection activity data available.")
NoActivityData == [message |-> "No connection activity data available."]

\* what show_connection_statistics prints for the counter, its items and
\* len(self.time_steps)
ConnectionStatistics(activity, items, steps) ==
    IF DOMAIN activity = {} THEN NoActivityData
    ELSE [steps |-> Len(steps),
          top |-> TopConnections(SortedByCount(items)),
          unique |-> Cardinality(DOMAIN activity),
          total |-> SumValues(activity)]

\* show_connection_statistics()
NetShowStatistics ==
    /\ animator = "network"
    /\ ~playing
    /\ \E items \in ItemOrders(connection_activity) :
           printed' = ConnectionStatistics(connection_activity, items, time_steps)
    /\ raised' = None
    /\ UNCHANGED <<animator, listing, base_filename, step_files, time_steps,
                   frame_info, current_data, previous_data, G, connection_activity,
                   playing, loop, frame, step_idx, drawn, ticks, pos_3d,
                   layout_type>>

\* Counters left by earlier playback: the first k edges, every m-th of them
\* counted twice and the others once (m = 1, 2, 3, from any offset).
StatCounters ==
    UNION {{[e \in {EdgeAt(i) : i \in 1..k} |->
                IF (CHOOSE i \in 1..k : EdgeAt(i) = e) % m = r THEN 2 ELSE 1] :
               m \in 1..3, r \in 0..2}
           : k \in 0..MaxEdges}

\* Two frames over neurons 1 and 2: 1 is quiet, then spiked; 1 feeds 2 or not.
StatListings ==
    {<<[name |-> PlaybackName("network", 0),
        data |-> Snapshot(<<Neuron(1, 0, FALSE, c), Neuron(2, 0, FALSE, <<>>)>>)],
       [name |-> PlaybackName("network", 1),
        data |-> Snapshot(<<Neuron(1, 0, TRUE, c), Neuron(2, 0, FALSE, <<>>)>>)]>> :
        c \in {<<>>, <<Conn(2, 4)>>}}

\* A NetworkVisualizer that has played sequences before and has loaded one.
InitStats ==
    /\ animator = "network"
    /\ listing \in StatListings
    /\ base_filename = listing[1].name
    /\ step_files = SortedStepFiles(listing, base_filename)
    /\ time_steps = LoadAll(listing, step_files)
    /\ frame_info = <<>>
    /\ current_data = ReadFile(listing, base_filename)
    /\ previous_data = None
    /\ G = BuildGraph(current_data)
    /\ connection_activity \in StatCounters
    /\ playing = FALSE
    /\ loop = FALSE
    /\ frame = 0
    /\ step_idx = -1
    /\ drawn = NoDraw
    /\ ticks = 0
    /\ raised = None
    /\ pos_3d = None
    /\ layout_type = ""
    /\ printed = None

NextStats ==
    \/ NetShowStatistics
    \/ \E lp \in BOOLEAN : NetAnimateTimeSeries(lp)
    \/ NetUpdateFrame
    \/ CloseWindow

SpecStats == InitStats /\ [][NextStats]_vars

(***************************************************************************)
(* NetworkVisualizer.animate(callback=...): every tick takes a snapshot    *)
(* from the callback, so any snapshot may follow any other.                *)
(***************************************************************************)
MaxPotential == 2

\* Snapshots over neurons 1, 2, 3: 1 and 3 may be spiked and may feed 2; 2 and 3
\* may be missing; the potential of 2 is 0.00, 0.01, 0.02, ...
DetectSnapshots ==
    {Snapshot(<<Neuron(1, 0, sp, c)>> \o n2 \o n3) :
        sp \in BOOLEAN, c \in {<<>>, <<Conn(2, 4)>>},
        n2 \in {<<>>} \cup {<<Neuron(2, p, FALSE, <<>>)>> : p \in 0..MaxPotential},
        n3 \in {<<>>} \cup {<<Neuron(3, 0, sp3, c3)>> :
                                sp3 \in BOOLEAN, c3 \in {<<>>, <<Conn(2, 4)>>}}}

\* NetworkVisualizer(json_file=...) on a file of one quiet neuron, before
\* animate() is called
InitDetect ==
    /\ animator = "network"
    /\ listing = <<[name |-> PlaybackName("network", 0),
                    data |-> Snapshot(<<Neuron(1, 0, FALSE, <<>>)>>)]>>
    /\ base_filename = listing[1].name
    /\ step_files = <<>>
    /\ time_steps = <<>>
    /\ frame_info = <<>>
    /\ current_data = ReadFile(listing, base_filename)
    /\ previous_data = None
    /\ G = BuildGraph(current_data)
    /\ connection_activity = <<>>
    /\ playing = FALSE
    /\ loop = FALSE
    /\ frame = 0
    /\ step_idx = -1
    /\ drawn = NoDraw
    /\ ticks = 0
    /\ raised = None
    /\ pos_3d = None
    /\ layout_type = ""
    /\ printed = None

\* update_frame(frame) of animate(), the except clause included: new_data is what
\* the callback returned; None (or any falsy value) leaves the data alone.
NetAnimateUpdateFrame(new_data) ==
    /\ animator = "network"
    /\ ~playing
    /\ IF new_data # None
       THEN /\ previous_data' = current_data
            /\ current_data' = new_data
            /\ G' = BuildGraph(current_data')
       ELSE UNCHANGED <<previous_data, current_data, G>>
    /\ drawn' = DrawNetwork(G', previous_data', current_data', -1)
    /\ raised' = None
    /\ UNCHANGED <<printed, pos_3d, layout_type, ticks, animator, listing,
                   base_filename, step_files, time_steps, frame_info,
                   connection_activity, playing, loop, frame, step_idx>>

NextDetect == \E new_data \in DetectSnapshots \cup {None} : NetAnimateUpdateFrame(new_data)

SpecDetect == InitDetect /\ [][NextDetect]_vars

(***************************************************************************)
(* Playback that is never closed.  The timer's frame counter grows without *)
(* bound; update_frame reads it only through frame % len and               *)
(* min(frame, len - 1), so a counter that has reached 3 * len is folded    *)
(* back by len, which changes neither of the two.  The NetworkVisualizer   *)
(* frames are such that no edge is ever counted (neuron 1 stays spiked and *)
(* no potential moves), so the counter stays as it is; neuron 2 may be     *)
(* named only as a target, which makes the draw of that frame fail.  The   *)
(* frames of the 3D animators all have neurons.                            *)
(***************************************************************************)
FoldedNext(f, n) == IF f + 1 >= 3 * n THEN f + 1 - n ELSE f + 1

LiveSnapshots ==
    {Snapshot(<<Neuron(1, 0, TRUE, c), Neuron(2, 0, FALSE, <<>>)>>) :
        c \in {<<>>, <<Conn(2, 4)>>}}
    \cup {Snapshot(<<Neuron(1, 0, TRUE, <<Conn(2, 4)>>)>>)}

InitLive ==
    \/ /\ InitNetwork
       /\ \A i \in DOMAIN listing : listing[i].data \in LiveSnapshots
    \/ /\ InitSpike3D
       /\ \A i \in DOMAIN listing : HasNeurons(listing[i].data)
    \/ /\ InitTraining
       /\ \A i \in DOMAIN listing : HasNeurons(listing[i].data)

\* update_frame(frame) of animate_time_series
LiveNetUpdateFrame ==
    /\ animator = "network"
    /\ playing
    /\ step_idx' = NetStepIndex(frame, Len(time_steps), loop)
    /\ previous_data' = NextPrevious(current_data, time_steps, step_idx')
    /\ current_data' = time_steps[step_idx' + 1]
    /\ G' = BuildGraph(current_data')
    /\ drawn' = DrawNetwork(G', previous_data', current_data', step_idx')
    /\ connection_activity' =
          IF drawn'.ok
          THEN CountActive(connection_activity,
                           DetectActiveConnections(previous_data', current_data'))
          ELSE connection_activity
    /\ frame' = FoldedNext(frame, Len(time_steps))
    /\ raised' = None
    /\ UNCHANGED <<printed, pos_3d, layout_type, ticks, animator, listing,
                   base_filename, step_files, time_steps, frame_info, playing, loop>>

\* FuncAnimation(frames=len(self.time_steps) if not loop else None, repeat=loop)
LiveTimerArmed3D == playing /\ (loop \/ frame < Len(time_steps))

\* Spike3DAnimator.animate.update_frame(frame)
LiveSpike3DUpdateFrame ==
    /\ animator = "spike3d"
    /\ LiveTimerArmed3D
    /\ step_idx' = Spike3DStepIndex(frame, Len(time_steps), loop)
    /\ drawn' = DrawFrame3D(G, time_steps, step_idx')
    /\ frame' = FoldedNext(frame, Len(time_steps))
    /\ raised' = IF drawn'.ok THEN None ELSE KeyError
    /\ playing' \in IF drawn'.ok THEN {playing} ELSE BOOLEAN
    /\ UNCHANGED <<printed, pos_3d, layout_type, ticks, animator, listing,
                   base_filename, step_files, time_steps, frame_info, current_data,
                   previous_data, G, connection_activity, loop>>

\* TrainingAnimator.animate.update_frame(frame)
LiveTrainingUpdateFrame ==
    /\ animator = "training"
    /\ LiveTimerArmed3D
    /\ step_idx' = TrainingStepIndex(frame, Len(time_steps), loop)
    /\ drawn' = DrawFrame3D(G, time_steps, step_idx')
    /\ frame' = FoldedNext(frame, Len(time_steps))
    /\ raised' = IF drawn'.ok THEN None ELSE KeyError
    /\ playing' \in IF drawn'.ok THEN {playing} ELSE BOOLEAN
    /\ UNCHANGED <<printed, pos_3d, layout_type, ticks, animator, listing,
                   base_filename, step_files, time_steps, frame_info, current_data,
                   previous_data, G, connection_activity, loop>>

LiveTick == LiveNetUpdateFrame \/ LiveSpike3DUpdateFrame \/ LiveTrainingUpdateFrame

NextLive ==
    \/ NetLoadTimeSeries(0)
    \/ \E lp \in BOOLEAN : NetAnimateTimeSeries(lp)
    \/ \E lp \in BOOLEAN : Spike3DAnimate(lp)
    \/ \E lp \in BOOLEAN : TrainingAnimate(lp)
    \/ LiveNetUpdateFrame
    \/ LiveSpike3DUpdateFrame
    \/ LiveTrainingUpdateFrame

\* While the window is open the timer keeps firing: a tick that stays possible
\* is taken.
SpecLive ==
    /\ InitLive
    /\ [][NextLive]_vars
    /\ WF_vars(LiveNetUpdateFrame)
    /\ WF_vars(LiveSpike3DUpdateFrame)
    /\ WF_vars(LiveTrainingUpdateFrame)

(***************************************************************************)
(* Properties                                                              *)
(***************************************************************************)
NetTick == animator = "network" /\ ticks' = ticks + 1

AnyTick == ticks' = ticks + 1

Count(activity, e) == IF e \in DOMAIN activity THEN activity[e] ELSE 0

\* The index shown by the preceding tick of this session (frame 0 before the first).
Cursor == IF frame = 0 THEN 0 ELSE step_idx

\* C1: with previous_data undefined the activity detector returns the empty set,
\* whatever the current snapshot holds.
C1_NoPreviousNoActivity ==
    (animator = "network" /\ previous_data = None)
        => DetectActiveConnections(previous_data, current_data) = {}

\* show_static has drawn a snapshot with a spiked, connected neuron and no previous.
C1_Witness ==
    /\ animator = "network"
    /\ previous_data = None
    /\ drawn.step = -1 /\ drawn.inactive # {} /\ drawn.active = {}
    /\ \E i \in DOMAIN current_data.neurons :
           current_data.neurons[i].spiked /\ current_data.neurons[i].connections # <<>>

\* C2: a neuron present in both snapshots, not spiked in previous and spiked in
\* current, has every one of its outgoing edges in the detector's result.
C2_RisingEdgeMarksOutgoing ==
    (animator = "network" /\ previous_data # None) =>
        \A i \in DOMAIN current_data.neurons, j \in DOMAIN previous_data.neurons :
            (/\ previous_data.neurons[j].id = current_data.neurons[i].id
             /\ ~previous_data.neurons[j].spiked
             /\ current_data.neurons[i].spiked)
            => \A k \in DOMAIN current_data.neurons[i].connections :
                   <<current_data.neurons[i].id,
                     current_data.neurons[i].connections[k].target>>
                       \in DetectActiveConnections(previous_data, current_data)

\* a tick has diffed a frame where neuron 1 rose against one where it was quiet
C2_Witness ==
    /\ animator = "network" /\ ticks > 0 /\ previous_data # None
    /\ ~previous_data.neurons[1].spiked
    /\ current_data.neurons[1].spiked
    /\ current_data.neurons[1].connections # <<>>
    /\ <<1, 2>> \in drawn.active

\* C3: no step of playback, a tick whose rendering fails included, lowers or
\* removes an entry of connection_activity.
C3_CounterMonotone ==
    [][\A e \in DOMAIN connection_activity :
           /\ e \in DOMAIN connection_activity'
           /\ connection_activity'[e] >= connection_activity[e]]_vars

\* a tick failed while the counter already held a count
C3_Witness ==
    /\ animator = "network" /\ ticks > 1 /\ ~drawn.ok /\ drawn.step >= 0
    /\ connection_activity # <<>>

\* C4: a tick that completes without error adds exactly 1 to the count of every
\* edge of that tick's ActivitySet and leaves every other count as it was.
C4_TickCountsOnce ==
    [][(NetTick /\ drawn'.ok) =>
          \A e \in DOMAIN connection_activity \cup DOMAIN connection_activity'
                   \cup drawn'.active :
              Count(connection_activity', e) =
                  Count(connection_activity, e) + (IF e \in drawn'.active THEN 1 ELSE 0)]_vars

\* an edge was active in two completed ticks and stands at 2
C4_Witness ==
    /\ animator = "network" /\ drawn.ok /\ drawn.step >= 0
    /\ <<1, 2>> \in drawn.active
    /\ Count(connection_activity, <<1, 2>>) = 2

\* C5: loading a new frame sequence resets connection_activity to empty.
C5_LoadResetsCounter ==
    [][(animator = "network" /\ time_steps' # time_steps)
          => connection_activity' = <<>>]_vars

\* C6 as claimed: the detector's previous snapshot is the frame at index
\* cursor - 1, and None when the cursor is 0.
C6_PreviousIsCursorMinusOne ==
    [][NetTick =>
          previous_data' = IF step_idx' = 0 THEN None ELSE time_steps[step_idx']]_vars

\* C6 as amended: the detector's previous snapshot is the snapshot the preceding
\* tick showed (frame 0 at the first tick of a session); it is never None.
C6_PreviousIsLastShown ==
    [][NetTick =>
          /\ previous_data' = time_steps[Cursor + 1]
          /\ previous_data' # None
          /\ drawn'.active = DetectActiveConnections(time_steps[Cursor + 1],
                                                     time_steps[step_idx' + 1])]_vars

\* looping playback has wrapped from the last frame to frame 0 and diffed the two
C6_Witness ==
    /\ animator = "network" /\ loop /\ frame > Len(time_steps) /\ step_idx = 0
    /\ Len(time_steps) > 1
    /\ previous_data = time_steps[Len(time_steps)]
    /\ previous_data # current_data

\* C7: with looping, the shown index starts at 0 and each tick moves it to
\* (cursor + 1) mod length, in all three animators.
C7_LoopingCursor ==
    [][(AnyTick /\ loop) =>
          step_idx' = IF frame = 0 THEN 0 ELSE (step_idx + 1) % Len(time_steps)]_vars

\* a looping animation has wrapped around
C7_Witness ==
    /\ loop /\ frame > Len(time_steps) /\ step_idx = 0 /\ Len(time_steps) > 1

\* C8: without looping, the shown index starts at 0 and each tick moves it to
\* min(cursor + 1, length - 1); once the last frame is shown a further tick
\* leaves the index, the displayed snapshot and connection_activity unchanged.
C8_HoldAtLastFrame ==
    [][(AnyTick /\ ~loop) =>
          /\ step_idx' = IF frame = 0 THEN 0
                         ELSE Min(step_idx + 1, Len(time_steps) - 1)
          /\ (Cursor = Len(time_steps) - 1) =>
                 /\ step_idx' = Cursor
                 /\ current_data' = current_data
                 /\ connection_activity' = connection_activity]_vars

\* a non-looping animation has ticked again after showing its last frame, with
\* counts gathered on the way there
C8_Witness ==
    /\ animator = "network" /\ ~loop /\ playing
    /\ frame > Len(time_steps) /\ step_idx = Len(time_steps) - 1
    /\ Len(time_steps) > 1
    /\ connection_activity # <<>>

\* The files of the listing that the step-file pattern of base_filename matches.
MatchingStepFiles ==
    {PathJoin(DirPath(base_filename), listing[i].name) :
        i \in {k \in DOMAIN listing : StepMatch(BasePath(base_filename), listing[k].name)}}

\* C9: the loaded step sequence is ascending in the integer value of the step
\* number of each file name, whatever the order of the directory listing; frame
\* i is the content of the i-th file of that order, and files are left out only
\* from the high end (num_steps), because the load raised, or because the
\* animator is not constructed yet.
C9_StepOrderNumeric ==
    (animator \in {"network", "spike3d"}) =>
        /\ \A i, j \in DOMAIN step_files :
               i < j => IntOf(step_files[i].filepath.num) <= IntOf(step_files[j].filepath.num)
        /\ Len(time_steps) <= Len(step_files)
        /\ (raised = None) => Len(time_steps) = Len(step_files)
        /\ \A i \in DOMAIN time_steps :
               time_steps[i] = ReadFile(listing, step_files[i].filepath)
        /\ \A i \in DOMAIN step_files :
               /\ step_files[i].filepath \in MatchingStepFiles
               /\ \A j \in DOMAIN step_files : i # j => step_files[i] # step_files[j]
        /\ \A f \in MatchingStepFiles :
               \/ \E i \in DOMAIN step_files : step_files[i].filepath = f
               \/ /\ animator = "network"
                  /\ \A i \in DOMAIN step_files :
                         IntOf(step_files[i].filepath.num) <= IntOf(f.num)
               \/ animator = "spike3d" /\ G = None

\* files listed as steps 2, 0, 1 were loaded as frames 0, 1, 2
C9_Witness ==
    /\ animator \in {"network", "spike3d"}
    /\ Len(listing) = 3
    /\ listing[1].name.num = <<2>> /\ listing[2].name.num = <<0>>
    /\ listing[3].name.num = <<1>>
    /\ time_steps = <<FileData(2), FileData(3), FileData(1)>>

\* The (epoch, digit, step) of a training file path, as integers.
FileKey(f) == <<IntOf(f.epoch), IntOf(f.digit), IntOf(f.step)>>

\* C10: training frames are ordered by (epoch, digit, step) compared
\* lexicographically as integers: frame i precedes frame j iff its epoch is
\* smaller, or the epochs are equal and its digit is smaller, or both are equal
\* and its step is smaller; frame_info[i] carries the key of the file that
\* time_steps[i] was loaded from.
C10_TrainingOrderLexicographic ==
    (animator = "training") =>
        /\ Len(frame_info) = Len(time_steps)
        /\ \A i \in DOMAIN frame_info :
               /\ <<frame_info[i].epoch, frame_info[i].digit, frame_info[i].step>>
                      = FileKey(frame_info[i].file)
               /\ time_steps[i] = ReadFile(listing, frame_info[i].file)
        /\ \A i, j \in DOMAIN frame_info :
               (i < j) <=>
                   \/ frame_info[i].epoch < frame_info[j].epoch
                   \/ /\ frame_info[i].epoch = frame_info[j].epoch
                      /\ frame_info[i].digit < frame_info[j].digit
                   \/ /\ frame_info[i].epoch = frame_info[j].epoch
                      /\ frame_info[i].digit = frame_info[j].digit
                      /\ frame_info[i].step < frame_info[j].step

\* C11: in every loaded frame sequence the ordering keys of consecutive frames
\* are strictly increasing, so no two loaded frames share an ordering key, for
\* every set of matching files (digit strings that denote the same integer
\* included).
C11_KeysStrictlyIncreasing ==
    \A i, j \in DOMAIN time_steps :
        i < j => TupleLess(step_files[i].key, step_files[j].key)

\* C12: when a file of the matched set cannot be loaded the load fails as a
\* whole: afterwards the frame list holds none of the frames read before the
\* failing file, and a sequence loaded earlier is not replaced by a partial one.
C12_LoadIsAtomic ==
    [][(raised' # None /\ raised'.exc = "JSONDecodeError")
          => (time_steps' = <<>> \/ time_steps' = time_steps)]_vars

\* Every neuron entry of the file content carries spike_count.
HasSpikeCounts(data) ==
    data # Corrupt =>
        \A k \in DOMAIN data.neurons : "spike_count" \in DOMAIN data.neurons[k]

\* C13: when a frame file of the loaded set has a neuron entry without
\* spike_count, the load has failed and no frames are retained.
C13_MissingSpikeCountRejected ==
    (\E i \in DOMAIN step_files :
         ~HasSpikeCounts(ReadFile(listing, step_files[i].filepath)))
        => (raised # None /\ time_steps = <<>>)

SnapshotIds(data) == {data.neurons[i].id : i \in DOMAIN data.neurons}

\* The (id, target, weight) triples of the connection lists of a snapshot.
SnapshotConnections(data) ==
    UNION {{<<data.neurons[i].id, data.neurons[i].connections[k].target,
              data.neurons[i].connections[k].weight>> :
               k \in DOMAIN data.neurons[i].connections} : i \in DOMAIN data.neurons}

\* The snapshot the topology is built from.
TopologySource == IF animator \in {"spike3d", "training"} THEN time_steps[1]
                  ELSE current_data

\* C15: the topology has exactly the neuron ids of its first snapshot as nodes
\* and exactly the (id, target) pairs of its connection lists, with their
\* weights, as edges; also when a connection's target has no neuron entry.
C15_TopologyIsFirstSnapshot ==
    (G # None) =>
        /\ Range(G.nodes) = SnapshotIds(TopologySource)
        /\ {<<e[1], e[2], G.edges[e]>> : e \in DOMAIN G.edges}
               = SnapshotConnections(TopologySource)

\* C16: an advance changes neither the loaded snapshot list nor the topology and
\* layout used to render, which are those derived from the first snapshot,
\* whatever later snapshots contain.
C16_TopologyFixedDuringPlayback ==
    [][AnyTick =>
          /\ time_steps' = time_steps
          /\ G'.nodes = BuildGraph3D(time_steps).nodes
          /\ G'.edges = BuildGraph3D(time_steps).edges
          /\ pos_3d' = pos_3d]_vars

\* The entries of a frame whose id is a node of the topology.
KnownEntries(g, data) ==
    SelectSeq(data.neurons, LAMBDA nr : nr.id \in Range(g.nodes))

\* C17: a frame that holds a neuron id absent from the topology is still rendered,
\* and the rendered nodes, their colour and size, and the active edges are what
\* they would be if that entry were not in the frame.
C17_UnknownIdIgnored ==
    [][(AnyTick /\ animator \in {"spike3d", "training"}
           /\ HasNeurons(time_steps[step_idx' + 1])) =>
          LET known == NeuronMap(Snapshot(KnownEntries(G, time_steps[step_idx' + 1])))
          IN /\ drawn'.ok
             /\ DOMAIN drawn'.nodes = Range(G.nodes)
             /\ \A n \in Range(G.nodes) :
                    drawn'.nodes[n] =
                        IF n \in DOMAIN known
                        THEN NodeLook(known[n].spiked, known[n].potential)
                        ELSE NodeLook(FALSE, 0)
             /\ drawn'.active = {e \in DOMAIN G.edges :
                                    e[2] \in DOMAIN known /\ known[e[2]].spiked}]_vars

\* a frame with a neuron the topology does not know has been drawn
C17_Witness ==
    /\ animator \in {"spike3d", "training"}
    /\ drawn.step >= 0 /\ drawn.ok
    /\ \E i \in DOMAIN time_steps[drawn.step + 1].neurons :
           /\ time_steps[drawn.step + 1].neurons[i].id \notin Range(G.nodes)
           /\ time_steps[drawn.step + 1].neurons[i].spiked

\* C18: under the layered strategy the i-th input node (in node order) is at
\* (-2.0 + 0.6 * (i mod 7), -1.0 + 0.6 * floor(i / 7), 0), the i-th hidden node
\* on the circle of radius 1.5 at angle 2 * pi * i / |hidden| at depth 1, the
\* i-th output node at (-1.5 + 0.3 * i, 2.0, 2); for A -> B -> C this gives
\* A = (-2.0, -1.0, 0), B = (1.5, 0, 1), C = (-1.5, 2.0, 2).
C18_LayeredPositions ==
    (layout_type = "layered" /\ pos_3d # None /\ G # None) =>
        /\ \A i \in DOMAIN InputNodes(G) :
               pos_3d.dict[InputNodes(G)[i]] =
                   Point(-20 + 6 * ((i - 1) % 7), -10 + 6 * ((i - 1) \div 7), 0)
        /\ \A i \in DOMAIN HiddenNodes(G) :
               pos_3d.dict[HiddenNodes(G)[i]] = OnCircle(15, i - 1, Len(HiddenNodes(G)), 10)
        /\ \A i \in DOMAIN OutputNodes(G) :
               pos_3d.dict[OutputNodes(G)[i]] = Point(-15 + 3 * (i - 1), 20, 20)
        /\ (G.nodes = <<1, 2, 3>> /\ DOMAIN G.edges = {<<1, 2>>, <<2, 3>>}) =>
               /\ pos_3d.dict[1] = Point(-20, -10, 0)
               /\ pos_3d.dict[2] = Point(15, 0, 10)
               /\ pos_3d.dict[3] = Point(-15, 20, 20)

\* C19: under spring, circular and layered alike a node's depth is 0 when its
\* in-degree is 0, else 2 when its out-degree is 0, else 1; also for a node
\* with neither incoming nor outgoing edges.
C19_DepthRuleShared ==
    (layout_type \in {"spring", "circular", "layered"} /\ pos_3d # None /\ G # None) =>
        \A n \in Range(G.nodes) :
            pos_3d.dict[n].z = IF \A e \in DOMAIN G.edges : e[2] # n THEN 0
                          ELSE IF \A e \in DOMAIN G.edges : e[1] # n THEN 20
                          ELSE 10

\* C20: a layout requested under a name that is none of spring, circular,
\* layered, spherical fails with the unknown-layout error and leaves pos_3d as
\* it was.
C20_UnknownLayoutKeepsLayout ==
    [][(animator = "network3d"
        /\ layout_type' \notin {"spring", "circular", "layered", "spherical"}) =>
          /\ raised' # None
          /\ raised'.exc = "ValueError"
          /\ raised'.msg = "Unknown layout type"
          /\ pos_3d' = pos_3d]_vars

\* an unknown name was asked for after a layout had been computed
C20_Witness ==
    /\ animator = "network3d"
    /\ layout_type = "force"
    /\ raised = UnknownLayoutType("force")
    /\ pos_3d # None

\* A frame every renderer can draw on its own: it has a neuron list and every
\* connection target has an entry in it.
WellFormedFrame(data) ==
    /\ HasNeurons(data)
    /\ \A i \in DOMAIN data.neurons :
           \A k \in DOMAIN data.neurons[i].connections :
               data.neurons[i].connections[k].target \in SnapshotIds(data)

\* C21: a failure while rendering a frame is caught inside the tick: no tick
\* hands an exception to the timer or stops playback, and every tick on a
\* well-formed frame renders it.
C21_TickFailsSoft ==
    [][AnyTick =>
          /\ raised' = None
          /\ playing'
          /\ WellFormedFrame(time_steps[step_idx' + 1]) => drawn'.ok]_vars

\* The snapshot pair of a tick: NetworkVisualizer keeps it in previous_data and
\* current_data; a 3D animator keeps none, so its pair is the frame the
\* preceding tick showed (None at the first tick) and the frame shown now.
TickPrevious ==
    IF animator = "network" THEN previous_data'
    ELSE IF step_idx = -1 THEN None ELSE time_steps[step_idx + 1]

\* C22: in every rendered frame of every playback path an edge of the topology
\* is drawn active exactly when the detector puts it in the activity set of the
\* tick's (previous, current) pair, and inactive otherwise.
C22_ActiveIsDetected ==
    [][(AnyTick /\ drawn'.ok) =>
          LET detected == DetectActiveConnections(TickPrevious,
                                                  time_steps[step_idx' + 1])
          IN \A e \in DOMAIN G'.edges :
                 /\ e \in drawn'.active <=> e \in detected
                 /\ e \in drawn'.inactive <=> e \notin detected]_vars

\* The activations a counter holds, one per edge and count.
Activations(activity) ==
    UNION {{<<e, i>> : i \in 1..activity[e]} : e \in DOMAIN activity}

EntryOf(data, id) == CHOOSE n \in Range(data.neurons) : n.id = id

\* neuron u lists a connection to v in the snapshot
Feeds(data, u, v) ==
    /\ u \in SnapshotIds(data)
    /\ \E k \in DOMAIN EntryOf(data, u).connections :
           EntryOf(data, u).connections[k].target = v

\* rule 1: u is in both snapshots and has a rising edge, v is a target of u in
\* the current snapshot
RisingRule(previous, current, u, v) ==
    /\ u \in SnapshotIds(previous) \cap SnapshotIds(current)
    /\ ~EntryOf(previous, u).spiked
    /\ EntryOf(current, u).spiked
    /\ Feeds(current, u, v)

\* rule 2: v is in both snapshots and its potential rose by more than 0.01, u
\* was spiked in the previous snapshot and fed v there
PotentialRule(previous, current, u, v) ==
    /\ v \in SnapshotIds(previous) \cap SnapshotIds(current)
    /\ EntryOf(current, v).potential - EntryOf(previous, v).potential > 1
    /\ u \in SnapshotIds(previous)
    /\ EntryOf(previous, u).spiked
    /\ Feeds(previous, u, v)

\* C24: for every pair (previous, current) with previous defined, an edge (u, v)
\* is in the activity set the detector returns if and only if the rising-edge
\* rule or the potential-jump rule holds of it; every spiked feeder of a neuron
\* whose potential jumped is included.
C24_DetectorIsUnionOfRules ==
    (animator = "network" /\ previous_data # None) =>
        /\ drawn.active = DetectActiveConnections(previous_data, current_data)
        /\ \A u, v \in 1..3 :
               <<u, v>> \in drawn.active <=>
                   \/ RisingRule(previous_data, current_data, u, v)
                   \/ PotentialRule(previous_data, current_data, u, v)
        /\ \A e \in drawn.active : e[1] \in 1..3 /\ e[2] \in 1..3

\* neurons 1 and 3 were both spiked and feeding 2, whose potential then rose by
\* 0.02: both edges are active, and neither neuron has a rising edge
C24_Witness ==
    /\ animator = "network" /\ previous_data # None
    /\ SnapshotIds(previous_data) = {1, 2, 3}
    /\ SnapshotIds(current_data) = {1, 2, 3}
    /\ EntryOf(previous_data, 1).spiked /\ EntryOf(previous_data, 3).spiked
    /\ EntryOf(current_data, 1).spiked /\ EntryOf(current_data, 3).spiked
    /\ EntryOf(current_data, 2).potential = EntryOf(previous_data, 2).potential + 2
    /\ drawn.active = {<<1, 2>>, <<3, 2>>}

\* The files of the searched directory named <prefix>_step<N>.json for the
\* prefix of the reference file.
NamedLikeReference(ls, base) ==
    {i \in DOMAIN ls : /\ ls[i].name.kind = "step"
                        /\ ls[i].name.prefix = base.prefix
                        /\ ls[i].name.num # <<>>}

\* C25: when the reference path D/<prefix>_step<k>.json names a file that is in
\* directory D, loading finds the files of D named <prefix>_step<N>.json: the
\* loaded sequence is not empty, no error is raised, and (when the load is not
\* truncated) every such file is in it.
C25_ReferenceDirectorySearched ==
    [][(/\ animator \in {"network", "spike3d"}
        /\ base_filename.num # <<>>
        /\ \E i \in DOMAIN listing : listing[i].name = PathJoin("", base_filename)
        /\ \A i \in DOMAIN listing : listing[i].data # Corrupt) =>
          /\ time_steps' # <<>>
          /\ raised' = None
          /\ animator = "spike3d" =>
                 \A i \in NamedLikeReference(listing, base_filename) :
                     listing[i].data \in Range(time_steps')]_vars

\* C26: animate_time_series on an empty time_steps raises the error and changes
\* nothing: snapshots, topology, counter, sequence and playback state are as
\* before, and no step from an empty sequence starts playback.  On a loaded
\* sequence it starts playback with the current snapshot set to frame 0 and the
\* previous snapshot to None.
C26_NoPlaybackFromIdle ==
    [][/\ ((\E lp \in BOOLEAN : NetAnimateTimeSeries(lp)) /\ time_steps = <<>>) =>
             /\ raised' = NoTimeSeries
             /\ raised'.exc = "ValueError"
             /\ UNCHANGED <<current_data, previous_data, G, connection_activity,
                            time_steps, step_files, playing, loop, frame, step_idx,
                            drawn, ticks>>
       /\ (animator = "network" /\ time_steps = <<>>) => ~playing'
       /\ ((\E lp \in BOOLEAN : NetAnimateTimeSeries(lp)) /\ time_steps # <<>>) =>
             /\ raised' = None
             /\ playing'
             /\ current_data' = time_steps[1]
             /\ previous_data' = None
             /\ UNCHANGED <<connection_activity, time_steps>>]_vars

\* animate_time_series has been refused on a visualizer that holds a snapshot
\* but no sequence
C26_Witness ==
    /\ animator = "network"
    /\ time_steps = <<>>
    /\ raised = NoTimeSeries
    /\ current_data # None
    /\ ~playing

\* C27: the detector applied to a snapshot with unique ids and itself returns
\* the empty set; the first tick of a session (frame 0 against frame 0) and every
\* held tick at the last frame of non-looping playback diff a frame against
\* itself and leave the counter as it was.
C27_SelfDiffIsEmpty ==
    [][NetTick =>
          /\ \A i \in DOMAIN time_steps :
                 DetectActiveConnections(time_steps[i], time_steps[i]) = {}
          /\ (previous_data' = current_data') =>
                 /\ drawn'.active = {}
                 /\ connection_activity' = connection_activity
          /\ (step_idx = -1 \/ (~loop /\ step_idx = Len(time_steps) - 1)) =>
                 /\ previous_data' = current_data'
                 /\ connection_activity' = connection_activity]_vars

\* a held tick at the last frame, whose neuron 1 is spiked and feeds 2, after
\* the counter had counted that edge
C27_Witness ==
    /\ animator = "network" /\ playing /\ ~loop
    /\ ticks > Len(time_steps)
    /\ step_idx = Len(time_steps) - 1
    /\ previous_data = current_data
    /\ drawn.ok /\ drawn.active = {}
    /\ \E i \in DOMAIN current_data.neurons :
           /\ current_data.neurons[i].spiked
           /\ current_data.neurons[i].connections # <<>>
    /\ connection_activity # <<>>

\* C28: for every (previous, current) pair reached during playback every edge
\* of the activity set is an edge of the graph the current frame is drawn on,
\* so the weight lookup of an active edge does not fail; also when the previous
\* snapshot lists a connection that the current one does not.
C28_ActiveEdgesAreGraphEdges ==
    [][NetTick =>
          /\ DetectActiveConnections(previous_data', current_data')
                 \subseteq DOMAIN G'.edges
          /\ WellFormedFrame(current_data') => drawn'.ok]_vars

\* The number of grid and row slots whose positions are compared.
MaxSlots == 15

\* C29: the computed layout gives every node of the graph exactly one position,
\* nodes that are only connection targets and nodes without edges included;
\* under layered no two nodes share a position, and the slots of the input grid
\* (rows of seven), of the output row and of the hidden circle are pairwise
\* different places.
C29_LayoutTotalInjective ==
    (pos_3d # None /\ G # None) =>
        /\ DOMAIN pos_3d.dict = Range(G.nodes)
        /\ layout_type = "layered" =>
               /\ \A m, n \in Range(G.nodes) :
                      m # n => pos_3d.dict[m] # pos_3d.dict[n]
               /\ \A i, j \in 0..MaxSlots :
                      /\ i # j => InputPosition(i) # InputPosition(j)
                      /\ i # j => OutputPosition(i) # OutputPosition(j)
                      /\ i # j => HiddenPosition(i, MaxSlots + 1)
                                      # HiddenPosition(j, MaxSlots + 1)
                      /\ InputPosition(i) # OutputPosition(j)
                      /\ InputPosition(i) # HiddenPosition(j, MaxSlots + 1)
                      /\ OutputPosition(i) # HiddenPosition(j, MaxSlots + 1)

\* a layered layout of three nodes: one that is only a connection target, one
\* without any edge, and the neuron that feeds the first
C29_Witness ==
    /\ animator = "network3d"
    /\ layout_type = "layered" /\ pos_3d # None
    /\ Len(G.nodes) = 3
    /\ \E n \in Range(G.nodes) : n \notin DOMAIN G.attrs
    /\ \E n \in Range(G.nodes) : \A e \in DOMAIN G.edges : e[1] # n /\ e[2] # n
    /\ DOMAIN pos_3d.dict = Range(G.nodes)

\* C30: every tick reads the sequence at an index of 0 .. length-1.  With
\* looping the index goes 0, 1, ..., length-1, 0, ... and, the timer firing
\* fairly, every index is shown again and again.  Without looping the index
\* goes 0, 1, ..., length-1 by steps of one, never back, and from some tick on
\* it is length-1 for ever.
C30_IndexCoversSequence ==
    /\ [][LiveTick =>
             /\ step_idx' \in 0..(Len(time_steps) - 1)
             /\ step_idx' = IF step_idx = -1 THEN 0
                            ELSE IF loop THEN (step_idx + 1) % Len(time_steps)
                            ELSE Min(step_idx + 1, Len(time_steps) - 1)]_vars
    /\ \A i \in 0..(MaxFrames - 1) :
           [](playing /\ loop /\ i < Len(time_steps) => <>(step_idx = i))
    /\ [](playing /\ ~loop => <>[](step_idx = Len(time_steps) - 1))

\* looping playback of more than one frame has wrapped and shows frame 0 again
C30_Witness ==
    /\ playing /\ loop
    /\ Len(time_steps) > 1
    /\ frame > Len(time_steps)
    /\ step_idx = 0
    /\ drawn.step = 0

====
